---- MODULE Spec2Model ----
(***************************************************************************)
(* Hybrid retrieval engine of strateg-version-2 (retriever.py), with the   *)
(* callers of its singleton in streamlit_app.py.                           *)
(*                                                                         *)
(* The specifications share the state:                                     *)
(*   Spec      one caller issues Retrieve / Search / GetTopSources calls   *)
(*             on a constructed engine, one call after the other;          *)
(*   SpecConc  the preload thread and two _run_rag_task workers run        *)
(*             against the lazily constructed module singleton;            *)
(*   SpecLoad  the script at the end of retriever.py: Retriever() on the   *)
(*             index files found on disk, then one retrieve() call;        *)
(*   SpecTok   tokenize() applied to a text;                               *)
(*   SpecMerge the merge loops of retrieve() applied to two hit lists;     *)
(*   SpecOrch  the launch button of streamlit_app.py: the three futures,   *)
(*             the waits with their timeouts, and the script reruns.       *)
(*                                                                         *)
(* A text is a sequence of characters.  A character outside ASCII is       *)
(* written as its code point: "U+041C" is the Cyrillic capital EM.         *)
(*                                                                         *)
(* The external libraries are modelled by what retriever.py relies on:     *)
(*   BM25Okapi.get_scores  a score per document, additive over the query   *)
(*                         tokens (zero for an empty token list);          *)
(*   numpy.argsort         an ascending permutation; the order of equal    *)
(*                         scores depends on the build (argsort_stable);   *)
(*   faiss search          the k nearest of ntotal vectors, best first,    *)
(*                         padded with label -1 when k > ntotal, and an    *)
(*                         assertion failure for k = 0;                    *)
(*   SentenceTransformer   the embedding decides the neighbour order, a    *)
(*                         function of the exact query string.             *)
(* Scores are integers: a BM25 score is >= 0, the similarity of the j-th   *)
(* neighbour is -j (higher is better, the padding has the lowest).         *)
(***************************************************************************)
EXTENDS Integers, Sequences, FiniteSets, TLC

\* ------------------------------------------------------------------ bounds
MaxDocs == 3
MaxTopK == 4
MaxText == 3
MaxHits == 2

\* ------------------------------------------------------- program constants
RERANK_TOP_K == 5
MainTopK == 5
TopLexical == 3
TopSemantic == 2

VARIABLES
    docs,             \* Retriever.docs: the corpus, docs[i+1].id = i
    faiss_ntotal,     \* faiss_index.ntotal
    bm25_seed,        \* per-document score of the token "a" (BM25 statistics)
    vec_seed,         \* neighbour order of the query "a" (embedding + index)
    argsort_stable,   \* how this build of numpy orders equal scores
    engines,          \* the Retriever instances constructed so far
    _retriever,       \* module global _retriever: 0 is None, else an instance
    call,             \* Spec: the last call of the sequential caller
    rag,              \* SpecConc: the frame of each _run_rag_task worker
    preload_pc,       \* SpecConc: position of the preload thread
    session           \* SpecOrch: st.session_state and the launch handler

vars == <<docs, faiss_ntotal, bm25_seed, vec_seed, argsort_stable, engines,
          _retriever, call, rag, preload_pc, session>>

index_vars == <<docs, faiss_ntotal, bm25_seed, vec_seed, argsort_stable>>

\* the index without the stored documents
oracle_vars == <<faiss_ntotal, bm25_seed, vec_seed, argsort_stable>>

\* ------------------------------------------------------------ small helpers
Min(a, b) == IF a < b THEN a ELSE b

Reverse(s) == [i \in 1..Len(s) |-> s[Len(s) + 1 - i]]

TakeInclusive(s, k) == SubSeq(s, 1, Min(k + 1, Len(s)))

\* s[:k] for k >= 0
Take(s, k) == SubSeq(s, 1, Min(k, Len(s)))

Range(s) == {s[i] : i \in 1..Len(s)}

RotateLeft(s) == IF Len(s) <= 1 THEN s ELSE Append(Tail(s), Head(s))

\* ------------------------------------------------------------------ queries
\* A query is a sequence of characters; None is the absent primary_query.
None == <<"<None>">>

Whitespace == {" ", "\n"}

\* the characters of the model, by class
LatinLower == {"a", "b"}

Digits == {"0", "2", "5"}

\* of the range а-я (U+0430..U+044F): а в к м о с
CyrLower == {"U+0430", "U+0432", "U+043A", "U+043C", "U+043E", "U+0441"}

\* ё (U+0451), named in the character class next to а-я
CyrIo == "U+0451"

RECURSIVE LStrip(_)
LStrip(s) == IF s # <<>> /\ Head(s) \in Whitespace THEN LStrip(Tail(s)) ELSE s

\* str.strip()
Strip(s) == Reverse(LStrip(Reverse(LStrip(s))))

LowerIdentity(c) == c

\* str.lower() on the characters of the model: A, B, М (U+041C), Ё (U+0401)
\* and the Ukrainian І (U+0406) have a lower-case form
Lower(c) ==
    CASE c = "A" -> "a"
      [] c = "B" -> "b"
      [] c = "U+041C" -> "U+043C"
      [] c = "U+0401" -> "U+0451"
      [] c = "U+0406" -> "U+0456"
      [] OTHER -> c

\* re.sub(r"[^а-яa-z0-9ё\s]", " ", text): what is kept after lower()
Kept(c) == c \in CyrLower \cup LatinLower \cup Digits \cup {CyrIo} \cup Whitespace

\* str.split(): maximal runs of non-whitespace
RECURSIVE Split(_, _)
Split(s, cur) ==
    IF s = <<>> THEN (IF cur = <<>> THEN <<>> ELSE <<cur>>)
    ELSE IF Head(s) \in Whitespace
         THEN (IF cur = <<>> THEN <<>> ELSE <<cur>>) \o Split(Tail(s), <<>>)
         ELSE Split(Tail(s), Append(cur, Head(s)))

tokenize(text) ==
    LET low == [i \in 1..Len(text) |-> Lower(text[i])]
        sub == [i \in 1..Len(low) |-> IF Kept(low[i]) THEN low[i] ELSE " "]
    IN  Split(sub, <<>>)

\* ------------------------------------------------------------------- corpus
Document(i) == [id |-> i, file |-> <<"file", i>>]

Corpus(n) == [i \in 1..n |-> Document(i - 1)]

LoadUnchecked(ds) == TRUE

\* _load_documents: every id equals its position
LoadOk(ds) == \A i \in 1..Len(ds) : ds[i].id = i - 1

\* self.docs[idx] with Python's indexing: a negative idx counts from the end
InRange(idx) == idx < Len(docs) /\ idx >= 0 - Len(docs)

DocAt(idx) == IF idx >= 0 THEN docs[idx + 1] ELSE docs[Len(docs) + idx + 1]

\* ------------------------------------------------------------ lexical index
Scores == {0, 1}

\* the score each document gets from one query token
TokenScores(tok) ==
    IF tok = <<"a">> THEN bm25_seed
    ELSE IF tok = <<"b">> THEN Reverse(bm25_seed)
    ELSE [i \in 1..Len(docs) |-> 0]

\* BM25Okapi.get_scores: the sum over the query tokens
RECURSIVE get_scores(_)
get_scores(q_tokens) ==
    IF q_tokens = <<>> THEN [i \in 1..Len(docs) |-> 0]
    ELSE LET rest == get_scores(Tail(q_tokens))
             one  == TokenScores(Head(q_tokens))
         IN  [i \in 1..Len(docs) |-> one[i] + rest[i]]

BeforeDescending(i, j, scores) ==
    \/ scores[i + 1] > scores[j + 1]
    \/ /\ scores[i + 1] = scores[j + 1]
       /\ IF argsort_stable THEN i < j ELSE i > j

\* the order numpy.argsort puts two indices in
Before(i, j, scores) ==
    \/ scores[i + 1] < scores[j + 1]
    \/ /\ scores[i + 1] = scores[j + 1]
       /\ IF argsort_stable THEN i < j ELSE i > j

RECURSIVE SortIdx(_, _)
SortIdx(S, scores) ==
    IF S = {} THEN <<>>
    ELSE LET m == CHOOSE x \in S : \A y \in S \ {x} : Before(x, y, scores)
         IN  <<m>> \o SortIdx(S \ {m}, scores)

argsort(scores) == SortIdx(0..(Len(scores) - 1), scores)

search_bm25(query, top_k) ==
    LET q_tokens == tokenize(query)
        scores   == get_scores(q_tokens)
        top_idx  == Take(Reverse(argsort(scores)), top_k)
    IN  [r \in 1..Len(top_idx) |-> <<top_idx[r], scores[top_idx[r] + 1]>>]

\* ------------------------------------------------------------- vector index
\* the neighbour order of a query string: a function of the exact string
NeighbourOrder(query) ==
    IF query = <<"a">> THEN vec_seed
    ELSE IF query = <<"b">> THEN Reverse(vec_seed)
    ELSE IF Strip(query) = query THEN RotateLeft(vec_seed)
    ELSE RotateLeft(Reverse(vec_seed))

\* faiss_index.search(q_emb, top_k): labels, padded with -1
FaissLabels(query, top_k) ==
    LET order == NeighbourOrder(query)
    IN  [j \in 1..top_k |-> IF j <= Len(order) THEN order[j] ELSE -1]

\* faiss asserts k > 0
FaissRaises(top_k) == top_k <= 0

search_vector(query, top_k) ==
    LET labels == FaissLabels(query, top_k)
    IN  [j \in 1..Len(labels) |-> <<labels[j], 0 - j>>]

\* ------------------------------------------------------------ text generation
\* the fixed text generate() returns for an empty document list
NOT_FOUND == "no relevant documents found"

NoAnswer == "None"

\* generator.generate(query, docs, stream=False); outcome is what the model
\* call does: "ok" returns text, "raise" raises.  Returns [raised, text].
generate(query, ds, outcome) ==
    IF ds = <<>> THEN [raised |-> FALSE, text |-> NOT_FOUND]
    ELSE IF outcome = "raise" THEN [raised |-> TRUE, text |-> NoAnswer]
    ELSE [raised |-> FALSE, text |-> "generated"]

GenOutcomes == {"ok", "raise"}

\* self.model.encode(...) of search_vector raises for this outcome of the call
EncodeRaises(outcome) == outcome = "encode_raise"

\* ---------------------------------------------------------- Retriever.retrieve
Modes == {"bm25", "vector", "both"}

\* doc = self.docs[idx].copy(); doc["_score"] = score; doc["_source"] = src
Entry(idx, score, src) ==
    [id |-> DocAt(idx).id, file |-> DocAt(idx).file, _score |-> score, _source |-> src]

\* first loop: the BM25 hits
RECURSIVE AddBm25(_, _, _)
AddBm25(results, seen_ids, combined) ==
    IF results = <<>> THEN [seen_ids |-> seen_ids, combined |-> combined]
    ELSE LET idx   == Head(results)[1]
             score == Head(results)[2]
         IN  IF idx \notin seen_ids
             THEN AddBm25(Tail(results), seen_ids \cup {idx},
                          Append(combined, Entry(idx, score, "bm25")))
             ELSE AddBm25(Tail(results), seen_ids, combined)

MarkBothSkipped(combined, idx) == combined

\* for doc in combined: if doc["id"] == idx: doc["_source"] = "both"; break
MarkBoth(combined, idx) ==
    IF \E k \in 1..Len(combined) : combined[k].id = idx
    THEN LET k == CHOOSE k \in 1..Len(combined) :
                      /\ combined[k].id = idx
                      /\ \A j \in 1..(k - 1) : combined[j].id # idx
         IN  [combined EXCEPT ![k]._source = "both"]
    ELSE combined

\* second loop: the vector hits
RECURSIVE AddVector(_, _, _)
AddVector(results, seen_ids, combined) ==
    IF results = <<>> THEN combined
    ELSE LET idx   == Head(results)[1]
             score == Head(results)[2]
         IN  IF idx \notin seen_ids
             THEN AddVector(Tail(results), seen_ids \cup {idx},
                            Append(combined, Entry(idx, score, "semantic")))
             ELSE AddVector(Tail(results), seen_ids, MarkBoth(combined, idx))

CombineShared(bm25_results, vector_results) ==
    LET first == AddBm25(bm25_results, {}, <<>>)
        all   == AddVector(vector_results, first.seen_ids, first.combined)
    IN  SelectSeq(all, LAMBDA e : e._source = "both")

CombineUnseen(bm25_results, vector_results) ==
    LET first == AddBm25(bm25_results, {}, <<>>)
    IN  AddVector(vector_results, {}, first.combined)

\* seen_ids = set(); combined_docs_list = []; the two loops
Combine(bm25_results, vector_results) ==
    LET first == AddBm25(bm25_results, {}, <<>>)
    IN  AddVector(vector_results, first.seen_ids, first.combined)

HitsUnchecked(results) == TRUE

StoredDocsAliased(ds, combined_docs) ==
    [i \in 1..Len(ds) |->
        IF \E k \in 1..Len(combined_docs) : combined_docs[k].id = ds[i].id
        THEN CHOOSE e \in Range(combined_docs) : e.id = ds[i].id
        ELSE ds[i]]

\* self.docs after the merge loops: every entry they write _score and
\* _source to is self.docs[idx].copy(), so no stored document is written
StoredDocs(ds, combined_docs) == ds

\* an index of a hit list that self.docs[idx] rejects (IndexError)
HitsInRange(results) == \A r \in 1..Len(results) : InRange(results[r][1])

Raised ==
    [raised |-> TRUE, bm25_results |-> <<>>, vector_results |-> <<>>,
     combined_docs |-> <<>>, answer |-> NoAnswer, generated |-> FALSE,
     generate_calls |-> 0]

\* if mode in ("bm25", "both")
RunsBm25(mode) == mode \in {"bm25", "both"}

RunsVectorAlways(mode) == TRUE

\* if mode in ("vector", "both")
RunsVector(mode) == mode \in {"vector", "both"}

GeneratesUnguarded(generate_answer, combined_docs) == generate_answer

\* if generate_answer and combined_docs
Generates(generate_answer, combined_docs) ==
    generate_answer /\ combined_docs # <<>>

AnswerOfFallback(invoke, gen) ==
    IF ~invoke THEN NoAnswer
    ELSE IF gen.raised THEN NOT_FOUND ELSE gen.text

\* answer = None; try: answer = generate(...) except Exception: answer = None
AnswerOf(invoke, gen) ==
    IF invoke /\ ~gen.raised THEN gen.text ELSE NoAnswer

\* how often retrieve() calls generate(): one call in the try block, none
\* in the except block
GenerateCalls(invoke, gen) == IF invoke THEN 1 ELSE 0

retrieve(query, top_k, mode, generate_answer, outcome) ==
    LET bm25_results   == IF RunsBm25(mode)
                          THEN search_bm25(query, top_k) ELSE <<>>
        vector_results == IF /\ RunsVector(mode)
                             /\ ~EncodeRaises(outcome)
                             /\ ~FaissRaises(top_k)
                          THEN search_vector(query, top_k) ELSE <<>>
    IN  IF \/ ~HitsInRange(bm25_results)
           \/ RunsVector(mode) /\ EncodeRaises(outcome)
           \/ RunsVector(mode) /\ FaissRaises(top_k)
           \/ ~HitsInRange(vector_results)
        THEN Raised
        ELSE LET combined_docs == Combine(bm25_results, vector_results)
                 invoke == Generates(generate_answer, combined_docs)
                 gen    == generate(query, combined_docs, outcome)
             IN  [raised         |-> FALSE,
                  bm25_results   |-> bm25_results,
                  vector_results |-> vector_results,
                  combined_docs  |-> combined_docs,
                  answer         |-> AnswerOf(invoke, gen),
                  generated      |-> invoke,
                  generate_calls |-> GenerateCalls(invoke, gen)]

\* ------------------------------------------------------------ Retriever.search
SourceInfo(idx, score) == [file |-> DocAt(idx).file, score |-> score]

SourceInfos(results) ==
    [r \in 1..Len(results) |-> SourceInfo(results[r][1], results[r][2])]

SearchQueryUnstripped(query, primary_query) ==
    IF primary_query # None /\ primary_query # <<>> /\ Strip(primary_query) # <<>>
    THEN Strip(primary_query) ELSE query

\* search_query = primary_query.strip() if primary_query and
\*                primary_query.strip() else query.strip()
SearchQuery(query, primary_query) ==
    IF primary_query # None /\ primary_query # <<>> /\ Strip(primary_query) # <<>>
    THEN Strip(primary_query) ELSE Strip(query)

TopSourcesUncut(result) ==
    SourceInfos(result.bm25_results) \o SourceInfos(result.vector_results)

\* the top_sources list search() builds from a result of retrieve()
TopSources(result) ==
    SourceInfos(Take(result.bm25_results, TopLexical))
        \o SourceInfos(Take(result.vector_results, TopSemantic))

\* the retrieve() call made by search()
SearchRetrieve(query, top_k, primary_query) ==
    retrieve(SearchQuery(query, primary_query), top_k, "both", FALSE, "ok")

StoredTopSourcesAppended(old, result) ==
    [has |-> TRUE, val |-> old.val \o TopSources(result)]

\* what search() stores in self.last_top_sources, given what was there
StoredTopSources(old, result) == [has |-> TRUE, val |-> TopSources(result)]

KeptTopSourcesOverwritten(old, result) == StoredTopSources(old, result)

\* self.last_top_sources after retrieve(): retrieve() has no assignment to it
KeptTopSources(old, result) == old

\* Retriever.get_top_sources: getattr(self, "last_top_sources", [])
get_top_sources(engine) ==
    IF engine.last_top_sources.has THEN engine.last_top_sources.val ELSE <<>>

\* a Retriever right after __init__: no last_top_sources attribute yet
NewRetriever == [last_top_sources |-> [has |-> FALSE, val |-> <<>>]]

\* ------------------------------------------------------------------ inputs
Queries == {<<"a">>, <<" ", "a">>, <<"b">>}

PrimaryQueries == {None, <<" ">>, <<"b">>}

TopKs == 0..MaxTopK

RECURSIVE Rotations(_, _)
Rotations(s, k) == IF k = 0 THEN {} ELSE {s} \cup Rotations(RotateLeft(s), k - 1)

\* neighbour orders of the vectors 0..n-1: the rotations of 0..n-1 and of its
\* reverse (every order for n <= 3)
Orders(n) ==
    LET up == [i \in 1..n |-> i - 1]
    IN  IF n = 0 THEN {<<>>}
        ELSE Rotations(up, n) \cup Rotations(Reverse(up), n)

\* ---------------------------------------------------------------- the state
\* call.before is what get_top_sources() returned when a search() call began
NoResult ==
    [raised |-> FALSE, bm25_results |-> <<>>, vector_results |-> <<>>,
     combined_docs |-> <<>>, answer |-> NoAnswer, generated |-> FALSE,
     generate_calls |-> 0]

NoCall ==
    [op |-> "none", query |-> <<>>, top_k |-> 0, mode |-> "both",
     generate_answer |-> FALSE, primary_query |-> None, outcome |-> "ok",
     result |-> NoResult, ret |-> <<>>, before |-> <<>>,
     top |-> [has |-> FALSE, val |-> <<>>]]

RagThreads == {"w1", "w2"}

\* st.session_state as the script initialises it (lines 304-321), with the
\* position of the launch handler and what the run has put on the page:
\* pending_web / pending_fut are the keys _pending_websearch_future and
\* _pending_future_future, rag / web / fut how the wait for each future
\* ended, shown the message of st.error / st.info
NoSession ==
    [pc |-> "idle", websearch_unavailable |-> FALSE, future_unavailable |-> FALSE,
     pending_web |-> FALSE, pending_fut |-> FALSE,
     rag |-> "none", web |-> "none", fut |-> "none",
     shown |-> "none", last_answer |-> "unset", websearch_result |-> "unset",
     future_result |-> "unset", final_strategy_result |-> "None"]

IdleFrame ==
    [pc |-> "idle", query |-> <<>>, ret |-> 0, docs |-> <<>>,
     out |-> [answer |-> NoAnswer, docs |-> <<>>, top_sources |-> <<>>,
              error |-> FALSE]]

\* the index files on disk: a corpus and a vector index of the same size
InitIndex ==
    /\ \E n \in 1..MaxDocs :
          /\ docs = Corpus(n)
          /\ faiss_ntotal = n
          /\ bm25_seed \in [1..n -> Scores]
          /\ vec_seed \in Orders(n)
    /\ argsort_stable \in BOOLEAN

\* Spec starts with the engine constructed (retriever = Retriever())
Init ==
    /\ InitIndex
    /\ engines = <<NewRetriever>>
    /\ _retriever = 1
    /\ call = NoCall
    /\ rag = [t \in RagThreads |-> IdleFrame]
    /\ preload_pc = "idle"
    /\ session = NoSession

\* --------------------------------------------------- the sequential caller
Retrieve(query, top_k, mode, generate_answer, outcome) ==
    /\ call.op = "none"
    /\ call' = [op |-> "retrieve", query |-> query, top_k |-> top_k,
                mode |-> mode, generate_answer |-> generate_answer,
                primary_query |-> None, outcome |-> outcome,
                result |-> retrieve(query, top_k, mode, generate_answer, outcome),
                ret |-> <<>>, before |-> <<>>,
                top |-> [has |-> FALSE, val |-> <<>>]]
    /\ docs' = StoredDocs(docs, call'.result.combined_docs)
    /\ engines' = [engines EXCEPT ![_retriever].last_top_sources =
                       KeptTopSources(@, call'.result)]
    /\ UNCHANGED <<session, oracle_vars, _retriever, rag, preload_pc>>

Search(query, top_k, primary_query) ==
    LET result == SearchRetrieve(query, top_k, primary_query)
    IN  /\ call.op = "none"
        /\ call' = [op |-> "search", query |-> query, top_k |-> top_k,
                    mode |-> "both", generate_answer |-> FALSE,
                    primary_query |-> primary_query, outcome |-> "ok",
                    result |-> result, ret |-> result.combined_docs,
                    before |-> get_top_sources(engines[_retriever]),
                    top |-> [has |-> FALSE, val |-> <<>>]]
        /\ engines' = IF result.raised THEN engines
                      ELSE [engines EXCEPT ![_retriever].last_top_sources =
                                StoredTopSources(@, result)]
        /\ docs' = StoredDocs(docs, result.combined_docs)
        /\ UNCHANGED <<session, oracle_vars, _retriever, rag, preload_pc>>

\* ret.get_top_sources(), before the first call or after a call returned
GetTopSources ==
    /\ ~call.top.has
    /\ call' = [call EXCEPT
                    !.op = IF @ = "none" THEN "get_top_sources" ELSE @,
                    !.top = [has |-> TRUE,
                             val |-> get_top_sources(engines[_retriever])]]
    /\ UNCHANGED <<session, index_vars, engines, _retriever, rag, preload_pc>>

\* the caller drops the result and is ready for its next call
Return ==
    /\ call.op # "none"
    /\ call' = NoCall
    /\ UNCHANGED <<session, index_vars, engines, _retriever, rag, preload_pc>>

Next ==
    \/ \E query \in Queries, top_k \in TopKs, mode \in Modes :
           \/ Retrieve(query, top_k, mode, FALSE, "ok")
           \/ \E outcome \in GenOutcomes : Retrieve(query, top_k, mode, TRUE, outcome)
    \/ \E query \in Queries, top_k \in TopKs, primary_query \in PrimaryQueries :
           Search(query, top_k, primary_query)
    \/ GetTopSources
    \/ Return

Spec == Init /\ [][Next]_vars

\* ------------------------------------------- the threads of streamlit_app
\* the queries the workers are started with: ex.submit(_run_rag_task, q, q, q)
TaskQueries == {<<"a">>, <<"b">>}

\* SpecConc starts with the module just imported: _retriever is None
InitConc ==
    /\ InitIndex
    /\ engines = <<>>
    /\ _retriever = 0
    /\ call = NoCall
    /\ rag = [t \in RagThreads |-> [IdleFrame EXCEPT !.pc = "start"]]
    /\ preload_pc = "start"
    /\ session = NoSession

\* get_retriever(): if _retriever is None
PreloadCheck ==
    /\ preload_pc = "start"
    /\ preload_pc' = IF _retriever = 0 THEN "construct" ELSE "done"
    /\ UNCHANGED <<session, index_vars, engines, _retriever, call, rag>>

\* get_retriever(): _retriever = Retriever()
PreloadConstruct ==
    /\ preload_pc = "construct"
    /\ engines' = Append(engines, NewRetriever)
    /\ _retriever' = Len(engines) + 1
    /\ preload_pc' = "done"
    /\ UNCHANGED <<session, index_vars, call, rag>>

\* _run_rag_task: ret = get_retriever(), the test of _retriever
RagCheck(t, q) ==
    /\ rag[t].pc = "start"
    /\ rag' = [rag EXCEPT ![t] =
                 IF _retriever = 0
                 THEN [@ EXCEPT !.pc = "construct", !.query = q]
                 ELSE [@ EXCEPT !.pc = "search", !.query = q, !.ret = _retriever]]
    /\ UNCHANGED <<session, index_vars, engines, _retriever, call, preload_pc>>

\* _run_rag_task: ret = get_retriever(), the construction
RagConstruct(t) ==
    /\ rag[t].pc = "construct"
    /\ engines' = Append(engines, NewRetriever)
    /\ _retriever' = Len(engines) + 1
    /\ rag' = [rag EXCEPT ![t] = [@ EXCEPT !.pc = "search", !.ret = Len(engines) + 1]]
    /\ UNCHANGED <<session, index_vars, call, preload_pc>>

FailedWithSources ==
    [answer |-> NoAnswer, docs |-> <<>>,
     top_sources |-> <<SourceInfo(0, 0)>>, error |-> TRUE]

\* except Exception as e: return (None, [], [], str(e))
Failed == [answer |-> NoAnswer, docs |-> <<>>, top_sources |-> <<>>, error |-> TRUE]

Nothing == [answer |-> NoAnswer, docs |-> <<>>, top_sources |-> <<>>, error |-> FALSE]

\* _run_rag_task: docs = ret.search(search_query, primary_query=primary_query)
RagSearch(t) ==
    LET f      == rag[t]
        result == SearchRetrieve(f.query, RERANK_TOP_K, f.query)
    IN  /\ f.pc = "search"
        /\ engines' = IF result.raised THEN engines
                      ELSE [engines EXCEPT ![f.ret].last_top_sources =
                                StoredTopSources(@, result)]
        /\ rag' = [rag EXCEPT ![t] =
                     IF result.raised
                     THEN [@ EXCEPT !.pc = "done", !.out = Failed]
                     ELSE IF result.combined_docs = <<>>
                     THEN [@ EXCEPT !.pc = "done", !.out = Nothing]
                     ELSE [@ EXCEPT !.pc = "generate",
                                    !.docs = result.combined_docs]]
        /\ UNCHANGED <<session, index_vars, _retriever, call, preload_pc>>

\* _run_rag_task: answer = generate(original_query, docs)
RagGenerate(t, outcome) ==
    LET f   == rag[t]
        gen == generate(f.query, f.docs, outcome)
    IN  /\ f.pc = "generate"
        /\ rag' = [rag EXCEPT ![t] =
                     IF gen.raised
                     THEN [@ EXCEPT !.pc = "done", !.out = Failed]
                     ELSE [@ EXCEPT !.pc = "get_top", !.out.answer = gen.text]]
        /\ UNCHANGED <<session, index_vars, engines, _retriever, call, preload_pc>>

\* _run_rag_task: return (answer, docs, ret.get_top_sources(), None)
RagReturn(t) ==
    LET f == rag[t]
    IN  /\ f.pc = "get_top"
        /\ rag' = [rag EXCEPT ![t] =
                     [@ EXCEPT !.pc = "done",
                               !.out.docs = f.docs,
                               !.out.top_sources = get_top_sources(engines[f.ret])]]
        /\ UNCHANGED <<session, index_vars, engines, _retriever, call, preload_pc>>

NextConc ==
    \/ PreloadCheck
    \/ PreloadConstruct
    \/ \E t \in RagThreads :
           \/ \E q \in TaskQueries : RagCheck(t, q)
           \/ RagConstruct(t)
           \/ RagSearch(t)
           \/ \E outcome \in GenOutcomes : RagGenerate(t, outcome)
           \/ RagReturn(t)

SpecConc == InitConc /\ [][NextConc]_vars

\* ------------------------------------------- the script of retriever.py
\* documents.json as found on disk: a corpus whose ids are the positions, or
\* one with a record whose id is off by one, or the corpus in reverse order
DiskCorpora(n) ==
    {Corpus(n)}
        \cup {[Corpus(n) EXCEPT ![i].id = i] : i \in 1..n}
        \cup (IF n >= 2 THEN {Reverse(Corpus(n))} ELSE {})

\* index.faiss as found on disk: as many vectors as documents, one less or
\* one more
DiskVectorCounts(n) == {m \in {n - 1, n, n + 1} : m >= 0}

\* SpecLoad starts before Retriever() with the files as they are on disk
InitLoad ==
    /\ \E n \in 0..MaxDocs :
          /\ docs \in DiskCorpora(n)
          /\ faiss_ntotal \in DiskVectorCounts(n)
          /\ bm25_seed \in [1..n -> Scores]
          /\ vec_seed \in Orders(faiss_ntotal)
    /\ argsort_stable \in BOOLEAN
    /\ engines = <<>>
    /\ _retriever = 0
    /\ call = NoCall
    /\ rag = [t \in RagThreads |-> IdleFrame]
    /\ preload_pc = "idle"
    /\ session = NoSession

\* the exception Retriever.__init__ ends with, "ok" when it returns: the
\* assert of _load_documents, then BM25Okapi dividing by the corpus size
ConstructOutcome(ds) ==
    IF ~LoadOk(ds) THEN "AssertionError"
    ELSE IF Len(ds) = 0 THEN "ZeroDivisionError"
    ELSE "ok"

\* retriever = Retriever(); call.outcome records how the constructor ended
MainConstruct ==
    LET outcome == ConstructOutcome(docs)
    IN  /\ call.op = "none"
        /\ engines = <<>>
        /\ call' = [NoCall EXCEPT !.op = "construct", !.outcome = outcome,
                                  !.result.raised = (outcome # "ok")]
        /\ engines' = IF outcome = "ok" THEN <<NewRetriever>> ELSE engines
        /\ UNCHANGED <<session, index_vars, _retriever, rag, preload_pc>>

\* the queries of the script and what the external calls of retrieve() do
MainQueries == {<<"a">>, <<"b">>, <<"!">>, <<>>}

Outcomes == GenOutcomes \cup {"encode_raise"}

\* retriever.retrieve(query, top_k=5, mode="both", generate_answer=True)
MainRetrieve(query, outcome) ==
    /\ call.op = "construct"
    /\ engines # <<>>
    /\ call' = [op |-> "retrieve", query |-> query, top_k |-> MainTopK,
                mode |-> "both", generate_answer |-> TRUE,
                primary_query |-> None, outcome |-> outcome,
                result |-> retrieve(query, MainTopK, "both", TRUE, outcome),
                ret |-> <<>>, before |-> <<>>,
                top |-> [has |-> FALSE, val |-> <<>>]]
    /\ UNCHANGED <<session, index_vars, engines, _retriever, rag, preload_pc>>

NextLoad ==
    \/ MainConstruct
    \/ \E query \in MainQueries, outcome \in Outcomes : MainRetrieve(query, outcome)

SpecLoad == InitLoad /\ [][NextLoad]_vars

\* ------------------------------------------------------------- tokenize()
\* the characters texts are drawn from; і (U+0456) is a letter outside the
\* ranges a-z, а-я, ё of the character class
Alphabet == {"a", "A", "0", "U+041C", "U+0451", "U+0456", "!", " "}

RECURSIVE TextsUpTo(_)
TextsUpTo(n) ==
    IF n = 0 THEN {<<>>}
    ELSE LET shorter == TextsUpTo(n - 1)
         IN  shorter \cup {Append(t, c) : t \in shorter, c \in Alphabet}

\* "Москва-2025!!"
ExampleText ==
    <<"U+041C", "U+043E", "U+0441", "U+043A", "U+0432", "U+0430", "-",
      "2", "0", "2", "5", "!", "!">>

Texts == TextsUpTo(MaxText) \cup {ExampleText}

\* SpecTok starts with the text tokenize() is about to be called on
InitTok ==
    /\ docs = Corpus(1)
    /\ faiss_ntotal = 1
    /\ bm25_seed = <<0>>
    /\ vec_seed = <<0>>
    /\ argsort_stable = TRUE
    /\ engines = <<>>
    /\ _retriever = 0
    /\ \E text \in Texts : call = [NoCall EXCEPT !.query = text]
    /\ rag = [t \in RagThreads |-> IdleFrame]
    /\ preload_pc = "idle"
    /\ session = NoSession

\* tokens = tokenize(text)
TokenizeText ==
    /\ call.op = "none"
    /\ call' = [call EXCEPT !.op = "tokenize", !.ret = tokenize(call.query)]
    /\ UNCHANGED <<session, index_vars, engines, _retriever, rag, preload_pc>>

NextTok == TokenizeText

SpecTok == InitTok /\ [][NextTok]_vars

\* ------------------------------------------------ the merge loops alone
\* a list of BM25 hits: distinct positions of the corpus, any scores
LexLists(n) ==
    UNION {{f \in [1..k -> (0..(n - 1)) \X Scores] :
               \A i, j \in 1..k : i # j => f[i][1] # f[j][1]} : k \in 0..MaxHits}

\* a list of faiss hits: distinct positions, then the padding label -1, the
\* similarity falling with the rank
SemLists(n) ==
    LET labels == UNION {{f \in [1..k -> (-1)..(n - 1)] :
                             /\ \A i, j \in 1..k :
                                    (i # j /\ f[i] # -1) => f[i] # f[j]
                             /\ \A i \in 1..(k - 1) : f[i] = -1 => f[i + 1] = -1}
                         : k \in 0..MaxHits}
    IN  {[j \in 1..Len(f) |-> <<f[j], 0 - j>>] : f \in labels}

\* SpecMerge starts where retrieve() has the hit lists of its two
\* sub-indexes, the vector index holding as many vectors as there are
\* documents or one more; the vector list may also be the BM25 list itself
InitMerge ==
    /\ \E n \in 1..MaxDocs :
          /\ docs = Corpus(n)
          /\ faiss_ntotal \in {n, n + 1}
          /\ bm25_seed = [i \in 1..n |-> 0]
          /\ vec_seed = [i \in 1..faiss_ntotal |-> i - 1]
          /\ \E bm25_results \in LexLists(n) :
                 \E vector_results \in SemLists(faiss_ntotal) \cup {bm25_results} :
                     call = [NoCall EXCEPT
                                !.result.bm25_results = bm25_results,
                                !.result.vector_results = vector_results]
    /\ argsort_stable = TRUE
    /\ engines = <<NewRetriever>>
    /\ _retriever = 1
    /\ rag = [t \in RagThreads |-> IdleFrame]
    /\ preload_pc = "idle"
    /\ session = NoSession

\* self.print_results(bm25_results, ...); self.print_results(vector_results,
\* ...): doc = self.docs[idx] for every hit, an IndexError ends retrieve()
PrintResults ==
    /\ call.op = "none"
    /\ call' = IF /\ HitsInRange(call.result.bm25_results)
                  /\ HitsInRange(call.result.vector_results)
               THEN [call EXCEPT !.op = "printed"]
               ELSE [call EXCEPT !.op = "print_raised", !.result.raised = TRUE]
    /\ UNCHANGED <<session, index_vars, engines, _retriever, rag, preload_pc>>

\* self.docs[idx].copy() of the merge loops raises IndexError
MergeIndexError(bm25_results, vector_results) ==
    \/ \E r \in 1..Len(bm25_results) : ~InRange(bm25_results[r][1])
    \/ \E r \in 1..Len(vector_results) : ~InRange(vector_results[r][1])

\* lines 131-159 of retrieve()
MergeLists ==
    /\ call.op = "printed"
    /\ call' = IF MergeIndexError(call.result.bm25_results,
                                  call.result.vector_results)
               THEN [call EXCEPT !.op = "merge", !.result.raised = TRUE]
               ELSE [call EXCEPT
                        !.op = "merge",
                        !.result.combined_docs =
                            Combine(call.result.bm25_results,
                                    call.result.vector_results)]
    /\ UNCHANGED <<session, index_vars, engines, _retriever, rag, preload_pc>>

NextMerge == PrintResults \/ MergeLists

SpecMerge == InitMerge /\ [][NextMerge]_vars

\* ------------------------------------------- the launch button handler
\* SpecOrch starts with the page rendered and st.session_state initialised
InitOrch ==
    /\ docs = Corpus(1)
    /\ faiss_ntotal = 1
    /\ bm25_seed = <<0>>
    /\ vec_seed = <<0>>
    /\ argsort_stable = TRUE
    /\ engines = <<>>
    /\ _retriever = 0
    /\ call = NoCall
    /\ rag = [t \in RagThreads |-> IdleFrame]
    /\ preload_pc = "idle"
    /\ session = NoSession

orch_rest == <<index_vars, engines, _retriever, call, rag, preload_pc>>

\* what _run_rag_task hands to f_rag.result(): a tuple with an error text,
\* with an answer, or (None, [], [], None)
RagResults == {"error", "answer", "nothing"}

\* how the wait for an agent future ends: its result, the exception the
\* agent raised, or concurrent.futures.TimeoutError after the timeout
AgentOutcomes == {"result", "raise", "timeout"}

\* except Exception as e: st.error(f"Ошибка: {e}") (lines 515-517); the
\* script then runs to its end without st.rerun()
HandlerFailed(s) == [s EXCEPT !.shown = "error", !.pc = "idle"]

\* if propose_btn: lines 432-446, up to the three ex.submit calls
Launch ==
    /\ session.pc = "idle"
    /\ session' = [session EXCEPT
                      !.pc = "wait_rag",
                      !.websearch_unavailable = FALSE,
                      !.future_unavailable = FALSE,
                      !.final_strategy_result = "None",
                      !.rag = "none", !.web = "none", !.fut = "none",
                      !.shown = "none"]
    /\ UNCHANGED orch_rest

\* rag_result = f_rag.result(timeout=120)
WaitRag(outcome) ==
    /\ session.pc = "wait_rag"
    /\ session' = IF outcome = "timeout"
                  THEN HandlerFailed([session EXCEPT !.rag = "timeout"])
                  ELSE [session EXCEPT !.rag = outcome, !.pc = "wait_web"]
    /\ UNCHANGED orch_rest

\* web_result = f_web.result(timeout=WEBSEARCH_TIMEOUT)
WaitWeb(outcome) ==
    /\ session.pc = "wait_web"
    /\ session' = IF outcome = "result"
                  THEN [session EXCEPT !.web = outcome, !.pc = "wait_fut"]
                  ELSE HandlerFailed([session EXCEPT !.web = outcome])
    /\ UNCHANGED orch_rest

\* future_result = f_fut.result(timeout=FUTURE_AGENT_TIMEOUT)
WaitFut(outcome) ==
    /\ session.pc = "wait_fut"
    /\ session' = IF outcome = "result"
                  THEN [session EXCEPT !.fut = outcome, !.pc = "results"]
                  ELSE HandlerFailed([session EXCEPT !.fut = outcome])
    /\ UNCHANGED orch_rest

\* lines 461-480: the RAG tuple is shown or saved, the agent results saved
HandleResults ==
    /\ session.pc = "results"
    /\ session' = [session EXCEPT
                      !.shown = IF session.rag = "error" THEN "rag_error"
                                ELSE IF session.rag = "answer" THEN @
                                ELSE "nothing_found",
                      !.last_answer = IF session.rag = "error" THEN @
                                      ELSE IF session.rag = "answer" THEN "answer"
                                      ELSE "None",
                      !.websearch_result = "result",
                      !.future_result = "result",
                      !.pc = IF session.rag = "answer" THEN "final" ELSE "rerun"]
    /\ UNCHANGED orch_rest

\* lines 481-507: build_final_strategy(...), its exception caught
BuildFinal(outcome) ==
    /\ session.pc = "final"
    /\ session' = IF outcome = "raise"
                  THEN [session EXCEPT !.shown = "final_error", !.pc = "rerun"]
                  ELSE [session EXCEPT !.final_strategy_result = "built",
                                       !.pc = "rerun"]
    /\ UNCHANGED orch_rest

\* one pending key of _poll_pending_agents: nothing for an absent key; else
\* unavailable after the timeout or an exception, available with a result,
\* still pending otherwise
PollOutcomes == {"expired", "result", "raise", "running"}

PollKey(pending, unavailable, outcome) ==
    IF ~pending THEN [pending |-> FALSE, unavailable |-> unavailable]
    ELSE IF outcome = "running" THEN [pending |-> TRUE, unavailable |-> unavailable]
    ELSE [pending |-> FALSE, unavailable |-> (outcome # "result")]

\* a run of the script after st.rerun() or a user action: the page is drawn
\* anew and _poll_pending_agents() runs (line 366)
Poll(web_outcome, fut_outcome) ==
    LET w == PollKey(session.pending_web, session.websearch_unavailable, web_outcome)
        f == PollKey(session.pending_fut, session.future_unavailable, fut_outcome)
    IN  /\ session.pc \in {"rerun", "idle"}
        /\ session' = [session EXCEPT
                          !.pc = "idle", !.shown = "none",
                          !.pending_web = w.pending,
                          !.websearch_unavailable = w.unavailable,
                          !.pending_fut = f.pending,
                          !.future_unavailable = f.unavailable]
        /\ UNCHANGED orch_rest

NextOrch ==
    \/ Launch
    \/ \E outcome \in RagResults \cup {"timeout"} : WaitRag(outcome)
    \/ \E outcome \in AgentOutcomes : WaitWeb(outcome)
    \/ \E outcome \in AgentOutcomes : WaitFut(outcome)
    \/ HandleResults
    \/ \E outcome \in GenOutcomes : BuildFinal(outcome)
    \/ \E web_outcome \in PollOutcomes, fut_outcome \in PollOutcomes :
           Poll(web_outcome, fut_outcome)

SpecOrch == InitOrch /\ [][NextOrch]_vars

\* ================================================================== claims
\* the call of the sequential caller returned a result (did not raise)
Returned(op) == call.op = op /\ ~call.result.raised

Merged == call.result.combined_docs

HitIds(results) == [r \in 1..Len(results) |-> results[r][1]]

LexIds == HitIds(call.result.bm25_results)

SemIds == HitIds(call.result.vector_results)

\* a sequence without its repeated elements, first occurrences kept
RECURSIVE Distinct(_, _)
Distinct(s, seen) ==
    IF s = <<>> THEN <<>>
    ELSE IF Head(s) \in seen THEN Distinct(Tail(s), seen)
         ELSE <<Head(s)>> \o Distinct(Tail(s), seen \cup {Head(s)})

\* C1: the merged list returned by Retrieve or Search never contains two
\* entries with the same doc_id.
C1_UniqueDocIds ==
    (Returned("retrieve") \/ Returned("search")) =>
        \A i, j \in 1..Len(Merged) : i # j => Merged[i].id # Merged[j].id

\* C2: the merged list is every distinct lexical doc_id in lexical rank
\* order, followed by every semantic doc_id that is not in the lexical list,
\* in semantic rank order.
C2_EmissionOrder ==
    (Returned("retrieve") \/ Returned("search")) =>
        [k \in 1..Len(Merged) |-> Merged[k].id]
            = Distinct(LexIds, {}) \o Distinct(SemIds, Range(LexIds))

\* C3: a merged entry is tagged "both" exactly when its doc_id is in both hit
\* lists, "bm25" when only in the lexical list, "semantic" when only in the
\* semantic list, and an entry tagged "both" carries the score of its
\* lexical hit.
C3_Provenance ==
    (Returned("retrieve") \/ Returned("search")) =>
        \A k \in 1..Len(Merged) :
            LET e     == Merged[k]
                inLex == e.id \in Range(LexIds)
                inSem == e.id \in Range(SemIds)
            IN  /\ e._source = "both" <=> (inLex /\ inSem)
                /\ e._source = "bm25" <=> (inLex /\ ~inSem)
                /\ e._source = "semantic" <=> (~inLex /\ inSem)
                /\ e._source = "both" =>
                       \E r \in 1..Len(LexIds) :
                           /\ call.result.bm25_results[r][1] = e.id
                           /\ call.result.bm25_results[r][2] = e._score

\* C4 as stated: generate() is entered only for generate_answer = True and a
\* non-empty merged list, its text becomes the answer, and for an empty
\* merged list it is not entered and (with generate_answer = True) the answer
\* is the fixed not-found text.
C4_NotFoundSignal ==
    Returned("retrieve") =>
        /\ call.result.generated => (call.generate_answer /\ Merged # <<>>)
        /\ (call.result.generated /\ call.outcome = "ok") =>
               call.result.answer = "generated"
        /\ Merged = <<>> => ~call.result.generated
        /\ (Merged = <<>> /\ call.generate_answer) =>
               call.result.answer = NOT_FOUND

\* C4 amended: generate() is entered only for generate_answer = True and a
\* non-empty merged list, its text becomes the answer, and for an empty
\* merged list it is not entered and the answer is absent (None).
C4_NoAnswerWhenEmpty ==
    Returned("retrieve") =>
        /\ call.result.generated => (call.generate_answer /\ Merged # <<>>)
        /\ (call.result.generated /\ call.outcome = "ok") =>
               call.result.answer = "generated"
        /\ Merged = <<>> =>
               (~call.result.generated /\ call.result.answer = NoAnswer)

C4_Witness ==
    /\ Returned("retrieve")
    /\ call.generate_answer
    /\ Merged = <<>>
    /\ call.result.answer = NoAnswer

\* the records of a top-sources list that come from BM25 hits (a BM25 score
\* is >= 0) and from vector hits (a similarity is < 0 in this model)
LexicalOrigin(top) == {i \in 1..Len(top) : top[i].score >= 0}

SemanticOrigin(top) == {i \in 1..Len(top) : top[i].score < 0}

C9_ModeSelects ==
    Returned("retrieve") =>
        LET lex == search_bm25(call.query, call.top_k)
            sem == search_vector(call.query, call.top_k)
            src == {Merged[k]._source : k \in 1..Len(Merged)}
        IN  /\ call.mode = "bm25" =>
                /\ call.result.bm25_results = lex
                /\ call.result.vector_results = <<>>
                /\ src \subseteq {"bm25"}
            /\ call.mode = "vector" =>
                /\ call.result.bm25_results = <<>>
                /\ call.result.vector_results = sem
                /\ src \subseteq {"semantic"}
            /\ call.mode = "both" =>
                /\ call.result.bm25_results = lex
                /\ call.result.vector_results = sem

C9_Witness ==
    /\ Returned("retrieve")
    /\ call.mode = "vector"
    /\ call.top_k > 0
    /\ Merged # <<>>

\* C10: Search(query, top_k) returns the merged list of
\* Retrieve(query.strip(), top_k, mode="both", generate_answer=False), raises
\* when that call raises, and never enters generate().
C10_SearchIsRetrieveBoth ==
    call.op = "search" =>
        /\ ~call.result.generated
        /\ call.result.answer = NoAnswer
        /\ call.primary_query = None =>
               LET r == retrieve(Strip(call.query), call.top_k, "both", FALSE, "ok")
               IN  /\ call.result.raised = r.raised
                   /\ call.ret = r.combined_docs

C10_Witness ==
    /\ Returned("search")
    /\ call.primary_query = None
    /\ Strip(call.query) # call.query
    /\ Len(call.ret) > 1

\* C7: each _run_rag_task worker that returns an answer returns, as its top
\* sources, the records of its own query, whatever the other threads do.
C7_OwnTopSources ==
    \A t \in RagThreads :
        (rag[t].pc = "done" /\ ~rag[t].out.error /\ rag[t].out.docs # <<>>) =>
            rag[t].out.top_sources
                = TopSources(SearchRetrieve(rag[t].query, RERANK_TOP_K, rag[t].query))

\* C8: Retriever() is constructed at most once and every thread that called
\* get_retriever() holds the same instance.
C8_ConstructedOnce ==
    /\ Len(engines) <= 1
    /\ \A t, u \in RagThreads :
           (rag[t].ret # 0 /\ rag[u].ret # 0) => rag[t].ret = rag[u].ret

\* the lexical hits of a returned Retrieve call that ran search_bm25
LexHits == call.result.bm25_results

LexicalRan == Returned("retrieve") /\ RunsBm25(call.mode)

\* the score of every document for the query of the call, computed over the
\* whole corpus
QueryScores == get_scores(tokenize(call.query))

\* C11: search_bm25(q, k) returns at most k pairs with pairwise distinct
\* doc_ids, and for k >= corpus size the full ranking, every document of the
\* corpus exactly once.
C11_LexicalAtMostK ==
    LexicalRan =>
        /\ Len(LexHits) <= call.top_k
        /\ \A i, j \in 1..Len(LexHits) : i # j => LexIds[i] # LexIds[j]
        /\ call.top_k >= Len(docs) =>
               /\ Len(LexHits) = Len(docs)
               /\ Range(LexIds) = 0..(Len(docs) - 1)

C11_Witness ==
    /\ LexicalRan
    /\ Len(docs) >= 2
    /\ call.top_k > Len(docs)
    /\ Len(LexHits) = Len(docs)

\* C12: the lexical hits are in descending score order and are the k
\* highest-scoring documents: each hit carries the score of its document and
\* no document left out scores strictly higher than a returned one.
C12_LexicalDescending ==
    LexicalRan =>
        /\ Len(LexHits) = Min(call.top_k, Len(docs))
        /\ \A r \in 1..Len(LexHits) : LexHits[r][2] = QueryScores[LexIds[r] + 1]
        /\ \A r \in 1..(Len(LexHits) - 1) : LexHits[r][2] >= LexHits[r + 1][2]
        /\ \A d \in (0..(Len(docs) - 1)) \ Range(LexIds) :
               \A r \in 1..Len(LexHits) : QueryScores[d + 1] <= LexHits[r][2]

C12_Witness ==
    /\ LexicalRan
    /\ Len(LexHits) >= 2
    /\ Len(LexHits) < Len(docs)
    /\ LexHits[1][2] > LexHits[Len(LexHits)][2]
    /\ \E d \in (0..(Len(docs) - 1)) \ Range(LexIds) :
           /\ d < LexIds[1]
           /\ QueryScores[d + 1] < LexHits[1][2]

\* C13: documents with equal lexical score are ranked in corpus order, the
\* smaller doc_id first, and where k cuts through a group of equal scores the
\* smaller doc_ids are the ones kept.
C13_TiesByDocId ==
    LexicalRan =>
        /\ \A r \in 1..(Len(LexHits) - 1) :
               LexHits[r][2] = LexHits[r + 1][2] => LexIds[r] < LexIds[r + 1]
        /\ \A d \in (0..(Len(docs) - 1)) \ Range(LexIds) :
               \A r \in 1..Len(LexHits) :
                   QueryScores[d + 1] = LexHits[r][2] => LexIds[r] < d

\* C14: a corpus with a record whose id differs from its position fails in
\* _load_documents (the assert, the code's corpus integrity error) and no
\* engine is constructed; on a constructed engine the document at position i
\* has id i.
C14_LoadChecksIds ==
    LET mismatch == \E i \in 1..Len(docs) : docs[i].id # i - 1
    IN  /\ mismatch => engines = <<>>
        /\ (mismatch /\ call.op = "construct") =>
               (call.result.raised /\ call.outcome = "AssertionError")
        /\ engines # <<>> => \A i \in 0..(Len(docs) - 1) : DocAt(i).id = i

C14_Witness ==
    /\ call.op = "construct"
    /\ call.result.raised
    /\ call.outcome = "AssertionError"
    /\ Len(docs) >= 2
    /\ docs[1].id = 0
    /\ engines = <<>>

\* C15: Retriever() checks that the vector index holds as many vectors as
\* there are documents: an engine is never constructed from a corpus and an
\* index of different sizes.
C15_VectorCountChecked ==
    engines # <<>> => faiss_ntotal = Len(docs)

\* C16: when the embedding call fails in mode "both", retrieve() still
\* returns, with the lexical hits of the query.
C16_LexicalSurvivesEncodeFailure ==
    (/\ call.op = "retrieve"
     /\ call.mode = "both"
     /\ EncodeRaises(call.outcome)
     /\ faiss_ntotal = Len(docs)) =>
        /\ ~call.result.raised
        /\ LexHits = search_bm25(call.query, call.top_k)

\* C17: for a query whose tokenization is empty the lexical ranking is "no
\* match": the call raises nothing, reports no lexical hit, and no merged
\* entry has lexical provenance.
C17_EmptyTokensNoMatch ==
    (/\ call.op = "retrieve"
     /\ tokenize(call.query) = <<>>
     /\ ~EncodeRaises(call.outcome)
     /\ faiss_ntotal = Len(docs)) =>
        /\ ~call.result.raised
        /\ LexHits = <<>>
        /\ \A k \in 1..Len(Merged) : Merged[k]._source \notin {"bm25", "both"}

\* the lower-case form of a character, as pairs (upper, lower)
CasePairs ==
    {<<"A", "a">>, <<"B", "b">>, <<"U+041C", "U+043C">>,
     <<"U+0401", "U+0451">>, <<"U+0406", "U+0456">>}

LowerCaseOf(c) ==
    IF \E p \in CasePairs : p[1] = c
    THEN (CHOOSE p \in CasePairs : p[1] = c)[2]
    ELSE c

\* a lower-case Latin or Cyrillic letter of a-z, а-я, ё, or a digit
IsWordChar(c) == c \in LatinLower \cup CyrLower \cup {CyrIo} \cup Digits

\* the positions where a maximal run of word characters starts, and its end
RunStarts(low) ==
    {i \in 1..Len(low) : IsWordChar(low[i]) /\ (i = 1 \/ ~IsWordChar(low[i - 1]))}

RunEnd(low, i) ==
    CHOOSE j \in i..Len(low) :
        /\ \A m \in i..j : IsWordChar(low[m])
        /\ j = Len(low) \/ ~IsWordChar(low[j + 1])

C19_MergeSelf ==
    (call.op = "merge" /\ call.result.vector_results = LexHits) =>
        /\ Len(Merged) = Len(LexHits)
        /\ \A k \in 1..Len(Merged) :
               /\ Merged[k].id = LexHits[k][1]
               /\ Merged[k].file = DocAt(LexHits[k][1]).file
               /\ Merged[k]._score = LexHits[k][2]
               /\ Merged[k]._source = "both"
        /\ \A i, j \in 1..Len(Merged) : i # j => Merged[i].id # Merged[j].id

C19_Witness ==
    /\ call.op = "merge"
    /\ call.result.vector_results = LexHits
    /\ Len(LexHits) >= 2
    /\ Len(Merged) = Len(LexHits)

ThreeDocScenario ==
    /\ Returned("retrieve")
    /\ call.mode = "both"
    /\ call.top_k = 2
    /\ Len(docs) = 3
    /\ QueryScores[1] > 0 /\ QueryScores[2] = 0 /\ QueryScores[3] > 0
    /\ call.result.vector_results[1][1] = 1

\* C22 as stated: in the scenario the merged list has exactly two entries,
\* one of documents 0 / 2 with lexical provenance and document 1 with
\* provenance "semantic", no duplicates.
C22_TwoEntries ==
    ThreeDocScenario =>
        /\ Len(Merged) = 2
        /\ \E k \in 1..Len(Merged) :
               Merged[k].id \in {0, 2} /\ Merged[k]._source \in {"bm25", "both"}
        /\ \E k \in 1..Len(Merged) :
               Merged[k].id = 1 /\ Merged[k]._source = "semantic"
        /\ \A i, j \in 1..Len(Merged) : i # j => Merged[i].id # Merged[j].id

\* C22 amended: in the scenario the merged list has exactly three entries:
\* documents 0 and 2 in lexical rank order, the one that is also the second
\* vector hit tagged "both" and the other "bm25", then document 1 tagged
\* "semantic"; no duplicates.
C22_ThreeEntries ==
    ThreeDocScenario =>
        LET second == call.result.vector_results[2][1]
        IN  /\ Len(Merged) = 3
            /\ <<Merged[1].id, Merged[2].id>> = LexIds
            /\ {Merged[1].id, Merged[2].id} = {0, 2}
            /\ \A k \in 1..2 :
                   Merged[k]._source = IF Merged[k].id = second THEN "both"
                                       ELSE "bm25"
            /\ second \in {0, 2}
            /\ Merged[3].id = 1
            /\ Merged[3]._source = "semantic"
            /\ \A i, j \in 1..Len(Merged) : i # j => Merged[i].id # Merged[j].id

C22_Witness ==
    /\ ThreeDocScenario
    /\ Len(Merged) = 3
    /\ Merged[3].id = 1
    /\ Merged[1]._source = "both"

\* C23: on an empty corpus the engine is constructed and retrieve() in mode
\* "both" returns an empty merged list, raising nothing and not entering
\* generate().
C23_EmptyCorpusRetrieves ==
    Len(docs) = 0 =>
        /\ call.op = "construct" => (~call.result.raised /\ engines # <<>>)
        /\ call.op = "retrieve" =>
               /\ ~call.result.raised
               /\ Merged = <<>>
               /\ ~call.result.generated

\* C24: the documents the engine holds are never written after load: in
\* every state, after any sequence of Retrieve and Search calls, the stored
\* corpus is the corpus as loaded, without _score or _source fields.
C24_DocsNeverMutated ==
    docs = Corpus(Len(docs))

C24_Witness ==
    /\ Returned("retrieve")
    /\ engines[_retriever].last_top_sources.has
    /\ \E k \in 1..Len(Merged) : Merged[k]._source = "both"
    /\ \E k \in 1..Len(Merged) : Merged[k]._source = "semantic"
    /\ docs = Corpus(Len(docs))

\* C25 as stated: after a direct retrieve() call returned, get_top_sources()
\* returns the top-source records of that call's query.
C25_RetrieveOverwrites ==
    (Returned("retrieve") /\ call.top.has) =>
        call.top.val = TopSources(call.result)

\* C25 amended: a retrieve() call leaves the top-sources snapshot as it was,
\* and get_top_sources() after it returns the snapshot of the last search()
\* call (nothing when there was none).
C25_RetrieveKeepsTopSources ==
    [][/\ (call.op = "none" /\ call'.op = "retrieve") => engines' = engines
       /\ (call.op = "retrieve" /\ call'.op = "retrieve") =>
              (call'.top.val = get_top_sources(engines[_retriever])
                  /\ engines' = engines)]_vars

C25_Witness ==
    /\ Returned("retrieve")
    /\ RunsBm25(call.mode)
    /\ call.top.has
    /\ call.top.val # <<>>
    /\ call.top.val # TopSources(call.result)

\* C26: when the wait for the Websearch or the Future agent ran into its
\* timeout, the launch ends with that agent marked unavailable
\* (websearch_unavailable / future_unavailable is True) and with no RAG
\* error on the page.
C26_TimeoutMarksUnavailable ==
    session.pc = "idle" =>
        /\ session.web = "timeout" =>
               (session.websearch_unavailable /\ session.shown # "rag_error")
        /\ session.fut = "timeout" =>
               (session.future_unavailable /\ session.shown # "rag_error")

\* C27: every doc_id in the lexical hits, the semantic hits and the merged
\* list of a returned Retrieve call is a valid document id (0 <= id <
\* number of documents), and the merged entries carry exactly the doc_ids of
\* the hits they were built from, also when top_k exceeds the number of
\* indexed vectors.
C27_ValidDocIds ==
    Returned("retrieve") =>
        LET valid     == 0..(Len(docs) - 1)
            hit_ids   == Range(LexIds) \cup Range(SemIds)
            entry_ids == {Merged[k].id : k \in 1..Len(Merged)}
        IN  /\ hit_ids \subseteq valid
            /\ entry_ids \subseteq valid
            /\ entry_ids = hit_ids

\* the queries C28 ranges over: the callers' queries, the empty query, a
\* blank one and one without a word character
AnyQueries == Queries \cup TaskQueries \cup {<<>>, <<" ">>, <<"!">>}

C29_GenerateFailureCaught ==
    (call.op = "retrieve" /\ call.generate_answer /\ call.outcome = "raise") =>
        LET ok == retrieve(call.query, call.top_k, call.mode, TRUE, "ok")
        IN  /\ call.result.raised = ok.raised
            /\ call.result.bm25_results = ok.bm25_results
            /\ call.result.vector_results = ok.vector_results
            /\ call.result.combined_docs = ok.combined_docs
            /\ call.result.answer = NoAnswer
            /\ call.result.generate_calls <= 1

\* generate() was entered with documents and raised; the call returned
C29_Witness ==
    /\ Returned("retrieve")
    /\ call.outcome = "raise"
    /\ call.result.generated
    /\ call.result.generate_calls = 1
    /\ Merged # <<>>
    /\ call.result.answer = NoAnswer

\* C30: a finished _run_rag_task holds a 4-tuple (answer, docs, top_sources,
\* error) of one of three shapes: with an error text it is (None, [], [],
\* text); without documents it is (None, [], [], None); otherwise error is
\* None, and an answer comes only with the non-empty docs of the task's own
\* search.
C30_RagTaskTuple ==
    \A t \in RagThreads :
        rag[t].pc = "done" =>
            LET out == rag[t].out
                own == SearchRetrieve(rag[t].query, RERANK_TOP_K, rag[t].query)
            IN  /\ DOMAIN out = {"answer", "docs", "top_sources", "error"}
                /\ (out.error \/ out.docs = <<>>) =>
                       /\ out.answer = NoAnswer
                       /\ out.docs = <<>>
                       /\ out.top_sources = <<>>
                /\ out.answer # NoAnswer =>
                       /\ ~out.error
                       /\ out.docs # <<>>
                       /\ out.docs = own.combined_docs

\* one task ended in the except branch, the other with an answer
C30_Witness ==
    \E t, u \in RagThreads :
        /\ rag[t].pc = "done" /\ rag[t].out.error
        /\ rag[u].pc = "done" /\ rag[u].out.answer = "generated"
        /\ rag[u].out.docs # <<>>

====
